---- MODULE Spec2Model ----
(***************************************************************************)
(* Model of the emoji and integration event handlers of the in-memory      *)
(* cache (cache/in-memory/src/event/emoji.rs, event/integration.rs) and of *)
(* the resource mask of cache/in-memory/src/config.rs.                     *)
(*                                                                         *)
(* Maps (DashMap) are functions whose DOMAIN is the set of present keys.   *)
(* Option<T> is a sequence of length 0 (None) or 1 (Some).                 *)
(***************************************************************************)
EXTENDS Integers, Sequences, FiniteSets, TLC

\* ---------------------------------------------------------------- bounds
MaxGuild == 2
MaxId == 2
MaxEmojiName == 1
MaxName == 2
MaxUser == 1
MaxLen == 2
MaxThread == 2
MaxSeedEvents == 1
MaxThreadLen == 1
MaxReplacementSeedEvents == 2

GuildIds == 1..MaxGuild
EmojiIds == 1..MaxId
IntegrationIds == 1..MaxId
EmojiNames == 1..MaxEmojiName
Names == 1..MaxName
UserIds == 1..MaxUser

\* ------------------------------------------------------- config.rs
\* bitflags! ResourceType: u64
CHANNEL == 1
EMOJI == 2
GUILD == 4
MEMBER == 8
MESSAGE == 16
PRESENCE == 32
REACTION == 64
ROLE == 128
USER_CURRENT == 256
USER == 512
VOICE_STATE == 1024
STAGE_INSTANCE == 2048
INTEGRATION == 4096

\* the named constants in declaration order
ResourceTypeFlags ==
    <<CHANNEL, EMOJI, GUILD, MEMBER, MESSAGE, PRESENCE, REACTION, ROLE,
      USER_CURRENT, USER, VOICE_STATE, STAGE_INSTANCE, INTEGRATION>>

\* ResourceType::all(): a ResourceType value is the set of its flags
ResourceTypeAll == {ResourceTypeFlags[i] : i \in DOMAIN ResourceTypeFlags}

RECURSIVE SumOf(_)
SumOf(S) == IF S = {} THEN 0 ELSE LET x == CHOOSE y \in S : TRUE IN x + SumOf(S \ {x})

\* ResourceType::bits
bits(rts) == SumOf(rts)

\* Config::new with ResourceType::empty() in place of ResourceType::all()
ConfigNewEmpty == [resource_types |-> {}, message_cache_size |-> 100]

\* Config::new (Config::default calls it)
ConfigNew == [resource_types |-> ResourceTypeAll, message_cache_size |-> 100]

\* the bits of ResourceType that the two handlers test
HandlerBits == {EMOJI, INTEGRATION}

\* ------------------------------------------------------- payload types
\* twilight_model::user::User, the fields other than id folded into name
User == [id : UserIds, name : Names]

SomeOf(S) == {<<x>> : x \in S}
None == <<>>
Option(S) == {None} \cup SomeOf(S)

\* twilight_model::guild::Emoji
Emoji == [id : EmojiIds, name : EmojiNames, user : Option(User)]

\* twilight_model::guild::GuildIntegration, guild_id is an Option<GuildId>
GuildIntegration == [id : IntegrationIds, name : Names, guild_id : Option(GuildIds)]

\* the emoji lists a GuildEmojisUpdate can carry (ids may repeat)
EmojiLists == UNION {[1..n -> Emoji] : n \in 0..MaxLen}

\* ------------------------------------------------------- state
VARIABLES emojis, guild_emojis, users, integrations, guild_integrations,
          resource_types,
          threads,    \* per thread: the event it runs and its position in it
          base        \* the maps as they were when the threads were started

vars == <<emojis, guild_emojis, users, integrations, guild_integrations,
          resource_types, threads, base>>

emojiVars == <<emojis, guild_emojis, users>>
integrationVars == <<integrations, guild_integrations>>

\* ------------------------------------------------------- map helpers
EmptyMap == <<>>

\* DashMap::insert
Insert(m, k, v) == [x \in DOMAIN m \cup {k} |-> IF x = k THEN v ELSE m[x]]

\* DashMap::remove
Remove(m, k) == [x \in DOMAIN m \ {k} |-> m[x]]

RemoveAll(m, ks) == [x \in DOMAIN m \ ks |-> m[x]]

\* DashMap::entry(k).or_default().insert(x) on a map of sets
EntryOrDefaultInsert(m, k, x) ==
    Insert(m, k, (IF k \in DOMAIN m THEN m[k] ELSE {}) \cup {x})

\* ------------------------------------------------------- lib.rs helpers
\* InMemoryCache::wants
wants(rts, resource_type) == resource_type \in rts

\* upsert_guild_item: no write when the stored data is equal, else replace
upsert_guild_item(map, guild_id, key, value) ==
    IF key \in DOMAIN map /\ map[key].data = value
    THEN map
    ELSE Insert(map, key, [data |-> value, guild_id |-> guild_id])

\* InMemoryCache::cache_user: upsert of the user into the user store
cache_user(st, user) ==
    IF user.id \in DOMAIN st.users /\ st.users[user.id] = user
    THEN st
    ELSE [st EXCEPT !.users = Insert(@, user.id, user)]

\* impl PartialEq<Emoji> for CachedEmoji: every field, the user by id only
CachedEmojiEq(cached, emoji) ==
    /\ cached.id = emoji.id
    /\ cached.name = emoji.name
    /\ cached.user_id = [i \in DOMAIN emoji.user |-> emoji.user[i].id]

\* ------------------------------------------------------- emoji.rs
\* InMemoryCache::emoji
emoji(st, emoji_id) ==
    IF emoji_id \in DOMAIN st.emojis THEN <<st.emojis[emoji_id].data>> ELSE None

\* InMemoryCache::guild_emojis (the query)
guild_emojis_of(st, guild_id) ==
    IF guild_id \in DOMAIN st.guild_emojis THEN <<st.guild_emojis[guild_id]>> ELSE None

\* cache_emoji without its last statement, the insert into guild_emojis
cache_emoji_no_index(st, guild_id, e) ==
    IF e.id \in DOMAIN st.emojis /\ CachedEmojiEq(st.emojis[e.id].data, e)
    THEN st
    ELSE LET user_id == [i \in DOMAIN e.user |-> e.user[i].id]
             s1 == IF e.user # None THEN cache_user(st, e.user[1]) ELSE st
             cached == [id |-> e.id, name |-> e.name, user_id |-> user_id]
         IN [s1 EXCEPT !.emojis =
                 Insert(@, cached.id, [data |-> cached, guild_id |-> guild_id])]

\* InMemoryCache::cache_emoji
cache_emoji(st, guild_id, e) ==
    IF e.id \in DOMAIN st.emojis /\ CachedEmojiEq(st.emojis[e.id].data, e)
    THEN st
    ELSE LET user_id == [i \in DOMAIN e.user |-> e.user[i].id]
             s1 == IF e.user # None THEN cache_user(st, e.user[1]) ELSE st
             cached == [id |-> e.id, name |-> e.name, user_id |-> user_id]
             s2 == [s1 EXCEPT !.emojis =
                        Insert(@, cached.id, [data |-> cached, guild_id |-> guild_id])]
         IN [s2 EXCEPT !.guild_emojis = EntryOrDefaultInsert(@, guild_id, e.id)]

RECURSIVE CacheEach(_, _, _, _)
\* the loop `for emoji in emojis { self.cache_emoji(guild_id, emoji) }`
CacheEach(st, guild_id, list, i) ==
    IF i > Len(list) THEN st
    ELSE CacheEach(cache_emoji(st, guild_id, list[i]), guild_id, list, i + 1)

\* `incoming` of cache_emojis
IdsOf(list) == {list[i].id : i \in DOMAIN list}

\* `removal_filter` of cache_emojis: the indexed ids that are not incoming
removal_filter(st, guild_id, list) ==
    IF guild_id \in DOMAIN st.guild_emojis
    THEN st.guild_emojis[guild_id] \ IdsOf(list)
    ELSE {}

\* cache_emojis without its second removal loop (self.0.emojis.remove)
cache_emojis_keep_store(st, guild_id, list) ==
    LET s1 == IF guild_id \in DOMAIN st.guild_emojis
              THEN [st EXCEPT !.guild_emojis[guild_id] =
                                  @ \ removal_filter(st, guild_id, list)]
              ELSE st
    IN CacheEach(s1, guild_id, list, 1)

\* cache_emojis that takes the stale ids out of every guild's set
cache_emojis_every_guild(st, guild_id, list) ==
    LET s1 == IF guild_id \in DOMAIN st.guild_emojis
              THEN [st EXCEPT !.guild_emojis =
                                  [h \in DOMAIN @ |->
                                      @[h] \ removal_filter(st, guild_id, list)],
                              !.emojis =
                                  RemoveAll(@, removal_filter(st, guild_id, list))]
              ELSE st
    IN CacheEach(s1, guild_id, list, 1)

\* InMemoryCache::cache_emojis
cache_emojis(st, guild_id, list) ==
    LET s1 == IF guild_id \in DOMAIN st.guild_emojis
              THEN [st EXCEPT !.guild_emojis[guild_id] =
                                  @ \ removal_filter(st, guild_id, list),
                              !.emojis =
                                  RemoveAll(@, removal_filter(st, guild_id, list))]
              ELSE st
    IN CacheEach(s1, guild_id, list, 1)

EmojiState == [emojis |-> emojis, guild_emojis |-> guild_emojis, users |-> users]

SetEmojiState(st) ==
    /\ emojis' = st.emojis
    /\ guild_emojis' = st.guild_emojis
    /\ users' = st.users

\* a crate-internal caller (guild caching) invoking cache_emoji directly
CacheEmoji(guild_id, e) ==
    /\ SetEmojiState(cache_emoji(EmojiState, guild_id, e))
    /\ UNCHANGED <<integrationVars, resource_types, threads, base>>

\* GuildEmojisUpdate::update without the `wants` early return
guild_emojis_update_ungated(st, rts, guild_id, list) ==
    cache_emojis(st, guild_id, list)

\* impl UpdateCache for GuildEmojisUpdate
guild_emojis_update(st, rts, guild_id, list) ==
    IF ~wants(rts, EMOJI) THEN st
    ELSE cache_emojis(st, guild_id, list)

GuildEmojisUpdate(guild_id, list) ==
    /\ SetEmojiState(guild_emojis_update(EmojiState, resource_types, guild_id, list))
    /\ UNCHANGED <<integrationVars, resource_types, threads, base>>

\* ------------------------------------------------------- integration.rs
IntegrationState == [integrations |-> integrations,
                     guild_integrations |-> guild_integrations]

SetIntegrationState(st) ==
    /\ integrations' = st.integrations
    /\ guild_integrations' = st.guild_integrations

\* InMemoryCache::cache_integration
cache_integration(st, guild_id, integration) ==
    LET s1 == [st EXCEPT !.guild_integrations =
                   EntryOrDefaultInsert(@, guild_id, integration.id)]
    IN [s1 EXCEPT !.integrations =
            upsert_guild_item(@, guild_id, <<guild_id, integration.id>>, integration)]

\* delete_integration that drops the guild's whole index set, whatever
\* integrations.remove returned
delete_integration_drop_set(st, guild_id, integration_id) ==
    [st EXCEPT !.integrations = Remove(@, <<guild_id, integration_id>>),
               !.guild_integrations = Remove(@, guild_id)]

\* delete_integration without the removal from guild_integrations
delete_integration_keep_index(st, guild_id, integration_id) ==
    IF <<guild_id, integration_id>> \in DOMAIN st.integrations
    THEN [st EXCEPT !.integrations = Remove(@, <<guild_id, integration_id>>)]
    ELSE st

\* InMemoryCache::delete_integration
delete_integration(st, guild_id, integration_id) ==
    IF <<guild_id, integration_id>> \in DOMAIN st.integrations
    THEN LET s1 == [st EXCEPT !.integrations = Remove(@, <<guild_id, integration_id>>)]
         IN IF guild_id \in DOMAIN s1.guild_integrations
            THEN [s1 EXCEPT !.guild_integrations[guild_id] = @ \ {integration_id}]
            ELSE s1
    ELSE st

\* impl UpdateCache for IntegrationCreate
integration_create(st, rts, integration) ==
    IF ~wants(rts, INTEGRATION) THEN st
    ELSE IF integration.guild_id # None
         THEN [st EXCEPT !.integrations =
                   upsert_guild_item(@, integration.guild_id[1],
                                     <<integration.guild_id[1], integration.id>>,
                                     integration)]
         ELSE st

\* impl UpdateCache for IntegrationDelete
integration_delete(st, rts, guild_id, id) ==
    IF ~wants(rts, INTEGRATION) THEN st
    ELSE delete_integration(st, guild_id, id)

\* impl UpdateCache for IntegrationUpdate
integration_update(st, rts, integration) ==
    IF ~wants(rts, INTEGRATION) THEN st
    ELSE IF integration.guild_id # None
         THEN cache_integration(st, integration.guild_id[1], integration)
         ELSE st

IntegrationCreate(integration) ==
    /\ SetIntegrationState(integration_create(IntegrationState, resource_types, integration))
    /\ UNCHANGED <<emojiVars, resource_types, threads, base>>

IntegrationDelete(guild_id, id) ==
    /\ SetIntegrationState(integration_delete(IntegrationState, resource_types, guild_id, id))
    /\ UNCHANGED <<emojiVars, resource_types, threads, base>>

IntegrationUpdate(integration) ==
    /\ SetIntegrationState(integration_update(IntegrationState, resource_types, integration))
    /\ UNCHANGED <<emojiVars, resource_types, threads, base>>

\* ------------------------------------------------------- threads
Threads == 1..MaxThread

\* what a thread is asked to run: an UpdateCache event or a crate-internal
\* cache_emoji call
NoEvent ==
    [op |-> "None", guild_id |-> None, emojis |-> <<>>,
     integration |-> None, id |-> None]

CacheEmojiCall(g, e) ==
    [op |-> "cache_emoji", guild_id |-> <<g>>, emojis |-> <<e>>,
     integration |-> None, id |-> None]

GuildEmojisUpdateEvent(g, l) ==
    [op |-> "GuildEmojisUpdate", guild_id |-> <<g>>, emojis |-> l,
     integration |-> None, id |-> None]

IntegrationCreateEvent(i) ==
    [op |-> "IntegrationCreate", guild_id |-> i.guild_id, emojis |-> <<>>,
     integration |-> <<i>>, id |-> <<i.id>>]

IntegrationUpdateEvent(i) ==
    [op |-> "IntegrationUpdate", guild_id |-> i.guild_id, emojis |-> <<>>,
     integration |-> <<i>>, id |-> <<i.id>>]

IntegrationDeleteEvent(g, x) ==
    [op |-> "IntegrationDelete", guild_id |-> <<g>>, emojis |-> <<>>,
     integration |-> None, id |-> <<x>>]

\* a thread's frame: pc names the map call it is about to make,
\* removal_filter and k are the locals of cache_emojis' two removal loops,
\* i is the position of its `for emoji in emojis` loop
Frame(pc, ev) ==
    [pc |-> pc, ev |-> ev, removal_filter |-> <<>>, k |-> 1, i |-> 1]

\* the frame of a thread entering its event
Start(ev) ==
    Frame(CASE ev.op = "None" -> "done"
            [] ev.op = "cache_emoji" -> "emojis.get"
            [] OTHER -> "update",
          ev)

Returned(f) == Frame("done", f.ev)

Stores ==
    [emojis |-> emojis, guild_emojis |-> guild_emojis, users |-> users,
     integrations |-> integrations, guild_integrations |-> guild_integrations]

EmptyStores ==
    [emojis |-> EmptyMap, guild_emojis |-> EmptyMap, users |-> EmptyMap,
     integrations |-> EmptyMap, guild_integrations |-> EmptyMap]

\* impl UpdateCache for ...: the wants test and the guild_id test that open
\* the four update functions; they read the event and the configuration only
Update(t) ==
    LET f == threads[t]
        next == CASE f.ev.op = "GuildEmojisUpdate" ->
                       IF wants(resource_types, EMOJI)
                       THEN "guild_emojis.get_mut" ELSE "done"
                  [] f.ev.op = "IntegrationCreate" ->
                       IF wants(resource_types, INTEGRATION) /\ f.ev.guild_id # None
                       THEN "upsert_guild_item" ELSE "done"
                  [] f.ev.op = "IntegrationUpdate" ->
                       IF wants(resource_types, INTEGRATION) /\ f.ev.guild_id # None
                       THEN "guild_integrations.entry" ELSE "done"
                  [] f.ev.op = "IntegrationDelete" ->
                       IF wants(resource_types, INTEGRATION)
                       THEN "integrations.remove" ELSE "done"
    IN /\ f.pc = "update"
       /\ threads' = [threads EXCEPT ![t].pc = next]
       /\ UNCHANGED <<emojiVars, integrationVars, resource_types, base>>

\* cache_integration, first call: guild_integrations.entry(guild_id)
\* .or_default().insert(integration.id)
GuildIntegrationsEntry(t) ==
    LET f == threads[t] IN
    /\ f.pc = "guild_integrations.entry"
    /\ guild_integrations' =
           EntryOrDefaultInsert(guild_integrations, f.ev.guild_id[1], f.ev.id[1])
    /\ threads' = [threads EXCEPT ![t].pc = "upsert_guild_item"]
    /\ UNCHANGED <<emojiVars, integrations, resource_types, base>>

\* the upsert_guild_item call of cache_integration and of
\* IntegrationCreate::update
UpsertGuildItem(t) ==
    LET f == threads[t] IN
    /\ f.pc = "upsert_guild_item"
    /\ integrations' =
           upsert_guild_item(integrations, f.ev.guild_id[1],
                             <<f.ev.guild_id[1], f.ev.id[1]>>, f.ev.integration[1])
    /\ threads' = [threads EXCEPT ![t] = Returned(f)]
    /\ UNCHANGED <<emojiVars, guild_integrations, resource_types, base>>

\* delete_integration: integrations.remove(&(guild_id, integration_id))
\* and the is_some() test on what it returned
IntegrationsRemove(t) ==
    LET f == threads[t]
        key == <<f.ev.guild_id[1], f.ev.id[1]>>
    IN /\ f.pc = "integrations.remove"
       /\ integrations' = Remove(integrations, key)
       /\ threads' = [threads EXCEPT ![t] =
                          IF key \in DOMAIN integrations
                          THEN [f EXCEPT !.pc = "guild_integrations.get_mut"]
                          ELSE Returned(f)]
       /\ UNCHANGED <<emojiVars, guild_integrations, resource_types, base>>

\* delete_integration: guild_integrations.get_mut(&guild_id) and the
\* removal of the id from the set it guards
GuildIntegrationsRemove(t) ==
    LET f == threads[t]
        g == f.ev.guild_id[1]
    IN /\ f.pc = "guild_integrations.get_mut"
       /\ guild_integrations' =
              IF g \in DOMAIN guild_integrations
              THEN [guild_integrations EXCEPT ![g] = @ \ {f.ev.id[1]}]
              ELSE guild_integrations
       /\ threads' = [threads EXCEPT ![t] = Returned(f)]
       /\ UNCHANGED <<emojiVars, integrations, resource_types, base>>

\* the orders in which a Vec collected from a HashSet can hold its elements
Orderings(S) ==
    {q \in [1..Cardinality(S) -> S] : \A a, b \in DOMAIN q : a # b => q[a] # q[b]}

\* the RefMut of cache_emojis kept until cache_emojis returns
holds_guard_until_return(f, guild_id) ==
    /\ f.ev.op = "GuildEmojisUpdate"
    /\ f.pc \in {"guild_emojis.remove", "emojis.remove", "emojis.get",
                  "cache_user", "emojis.insert", "guild_emojis.entry"}
    /\ f.ev.guild_id = <<guild_id>>

\* the RefMut that cache_emojis takes with guild_emojis.get_mut(&guild_id)
\* and keeps through the end of its two removal loops
holds_guard(f, guild_id) ==
    /\ f.pc \in {"guild_emojis.remove", "emojis.remove"}
    /\ f.ev.guild_id = <<guild_id>>

\* no thread holds the guard of guild_emojis' entry for guild_id
guard_free(guild_id) == \A u \in Threads : ~holds_guard(threads[u], guild_id)

\* the frame at the head of `for emoji in emojis` (and at the return of a
\* bare cache_emoji call, whose list is the one emoji)
ForEmoji(f, i) ==
    IF i > Len(f.ev.emojis)
    THEN Returned(f)
    ELSE [Frame("emojis.get", f.ev) EXCEPT !.i = i]

\* cache_emojis without its first removal loop (guild_emojis.remove)
GuildEmojisGetMutStoreOnly(t) ==
    LET f == threads[t]
        g == f.ev.guild_id[1]
    IN /\ f.pc = "guild_emojis.get_mut"
       /\ guard_free(g)
       /\ \E order \in Orderings(removal_filter(EmojiState, g, f.ev.emojis)) :
              threads' = [threads EXCEPT ![t] =
                             IF g \in DOMAIN guild_emojis /\ order # <<>>
                             THEN [f EXCEPT !.pc = "emojis.remove",
                                            !.removal_filter = order]
                             ELSE ForEmoji(f, 1)]
       /\ UNCHANGED <<emojiVars, integrationVars, resource_types, base>>

\* cache_emojis: guild_emojis.get_mut(&guild_id), which waits for the guard,
\* and the collection of removal_filter under it
GuildEmojisGetMut(t) ==
    LET f == threads[t]
        g == f.ev.guild_id[1]
    IN /\ f.pc = "guild_emojis.get_mut"
       /\ guard_free(g)
       /\ \E order \in Orderings(removal_filter(EmojiState, g, f.ev.emojis)) :
              threads' = [threads EXCEPT ![t] =
                             IF g \in DOMAIN guild_emojis /\ order # <<>>
                             THEN [f EXCEPT !.pc = "guild_emojis.remove",
                                            !.removal_filter = order]
                             ELSE ForEmoji(f, 1)]
       /\ UNCHANGED <<emojiVars, integrationVars, resource_types, base>>

\* cache_emojis, first loop: guild_emojis.remove(to_remove) on the guarded set
GuildEmojisRemove(t) ==
    LET f == threads[t]
        g == f.ev.guild_id[1]
    IN /\ f.pc = "guild_emojis.remove"
       /\ guild_emojis' = [guild_emojis EXCEPT ![g] = @ \ {f.removal_filter[f.k]}]
       /\ threads' = [threads EXCEPT ![t] =
                          IF f.k = Len(f.removal_filter)
                          THEN [f EXCEPT !.pc = "emojis.remove", !.k = 1]
                          ELSE [f EXCEPT !.k = @ + 1]]
       /\ UNCHANGED <<emojis, users, integrationVars, resource_types, base>>

\* cache_emojis, second loop: self.0.emojis.remove(to_remove); the guard is
\* dropped after the last one
EmojisRemove(t) ==
    LET f == threads[t] IN
    /\ f.pc = "emojis.remove"
    /\ emojis' = Remove(emojis, f.removal_filter[f.k])
    /\ threads' = [threads EXCEPT ![t] =
                       IF f.k = Len(f.removal_filter)
                       THEN ForEmoji(f, 1)
                       ELSE [f EXCEPT !.k = @ + 1]]
    /\ UNCHANGED <<guild_emojis, users, integrationVars, resource_types, base>>

\* cache_emoji: self.0.emojis.get(&emoji.id) and the comparison with the
\* incoming emoji
EmojisGet(t) ==
    LET f == threads[t]
        e == f.ev.emojis[f.i]
    IN /\ f.pc = "emojis.get"
       /\ threads' = [threads EXCEPT ![t] =
                          IF e.id \in DOMAIN emojis /\ CachedEmojiEq(emojis[e.id].data, e)
                          THEN ForEmoji(f, f.i + 1)
                          ELSE [f EXCEPT !.pc = IF e.user # None
                                                THEN "cache_user" ELSE "emojis.insert"]]
       /\ UNCHANGED <<emojiVars, integrationVars, resource_types, base>>

\* cache_emoji without the cache_user call
CacheUserSkipped(t) ==
    LET f == threads[t] IN
    /\ f.pc = "cache_user"
    /\ threads' = [threads EXCEPT ![t].pc = "emojis.insert"]
    /\ UNCHANGED <<emojiVars, integrationVars, resource_types, base>>

\* cache_emoji: self.cache_user(Cow::Owned(user), Some(guild_id))
CacheUser(t) ==
    LET f == threads[t]
        e == f.ev.emojis[f.i]
    IN /\ f.pc = "cache_user"
       /\ users' = cache_user(EmojiState, e.user[1]).users
       /\ threads' = [threads EXCEPT ![t].pc = "emojis.insert"]
       /\ UNCHANGED <<emojis, guild_emojis, integrationVars, resource_types, base>>

\* cache_emoji: self.0.emojis.insert(cached.id, GuildItem { data: cached, guild_id })
EmojisInsert(t) ==
    LET f == threads[t]
        e == f.ev.emojis[f.i]
        cached == [id |-> e.id, name |-> e.name,
                   user_id |-> [j \in DOMAIN e.user |-> e.user[j].id]]
    IN /\ f.pc = "emojis.insert"
       /\ emojis' = Insert(emojis, cached.id,
                            [data |-> cached, guild_id |-> f.ev.guild_id[1]])
       /\ threads' = [threads EXCEPT ![t].pc = "guild_emojis.entry"]
       /\ UNCHANGED <<guild_emojis, users, integrationVars, resource_types, base>>

\* cache_emoji with guild_emojis.insert(guild_id, {emoji.id}) in place of
\* entry(guild_id).or_default().insert(emoji.id)
GuildEmojisEntryReplace(t) ==
    LET f == threads[t]
        g == f.ev.guild_id[1]
    IN /\ f.pc = "guild_emojis.entry"
       /\ guard_free(g)
       /\ guild_emojis' = Insert(guild_emojis, g, {f.ev.emojis[f.i].id})
       /\ threads' = [threads EXCEPT ![t] = ForEmoji(f, f.i + 1)]
       /\ UNCHANGED <<emojis, users, integrationVars, resource_types, base>>

\* cache_emoji: guild_emojis.entry(guild_id).or_default().insert(emoji.id),
\* which waits for the guard
GuildEmojisEntry(t) ==
    LET f == threads[t]
        g == f.ev.guild_id[1]
    IN /\ f.pc = "guild_emojis.entry"
       /\ guard_free(g)
       /\ guild_emojis' = EntryOrDefaultInsert(guild_emojis, g, f.ev.emojis[f.i].id)
       /\ threads' = [threads EXCEPT ![t] = ForEmoji(f, f.i + 1)]
       /\ UNCHANGED <<emojis, users, integrationVars, resource_types, base>>

\* ------------------------------------------------------- specifications
\* InMemoryCache::new() on a Config whose mask was set with
\* Config::resource_types_mut before the cache was built: empty maps.
Init ==
    /\ threads = [t \in Threads |-> Start(NoEvent)]
    /\ base = EmptyStores
    /\ emojis = EmptyMap
    /\ guild_emojis = EmptyMap
    /\ users = EmptyMap
    /\ integrations = EmptyMap
    /\ guild_integrations = EmptyMap
    /\ resource_types \in {ConfigNew.resource_types \ off : off \in SUBSET HandlerBits}

NextEmoji ==
    \/ \E g \in GuildIds, e \in Emoji : CacheEmoji(g, e)
    \/ \E g \in GuildIds, l \in EmojiLists : GuildEmojisUpdate(g, l)

NextIntegration ==
    \/ \E i \in GuildIntegration : IntegrationCreate(i)
    \/ \E i \in GuildIntegration : IntegrationUpdate(i)
    \/ \E g \in GuildIds, x \in IntegrationIds : IntegrationDelete(g, x)

\* the emoji handlers alone
SpecEmoji == Init /\ [][NextEmoji]_vars

\* the integration handlers alone
SpecIntegration == Init /\ [][NextIntegration]_vars

\* Both categories.  The emoji handlers read and write only emojis,
\* guild_emojis and users, the integration handlers only integrations and
\* guild_integrations, and both only read resource_types, so every pair of
\* (one category's maps, mask) that interleaved events can produce is
\* produced by that category's events alone.  Next therefore runs one
\* category per cache, from the empty cache.
Next ==
    \/ /\ integrations = EmptyMap /\ guild_integrations = EmptyMap
       /\ NextEmoji
    \/ /\ emojis = EmptyMap /\ guild_emojis = EmptyMap /\ users = EmptyMap
       /\ NextIntegration

Spec == Init /\ [][Next]_vars

\* ------------------------------------------------------- concurrent runs
\* an event applied as a whole, as one thread alone would apply it
apply(st, rts, ev) ==
    CASE ev.op = "None" -> st
      [] ev.op = "cache_emoji" -> cache_emoji(st, ev.guild_id[1], ev.emojis[1])
      [] ev.op = "GuildEmojisUpdate" ->
             guild_emojis_update(st, rts, ev.guild_id[1], ev.emojis)
      [] ev.op = "IntegrationCreate" -> integration_create(st, rts, ev.integration[1])
      [] ev.op = "IntegrationUpdate" -> integration_update(st, rts, ev.integration[1])
      [] ev.op = "IntegrationDelete" ->
             integration_delete(st, rts, ev.guild_id[1], ev.id[1])

\* the maps of a cache that has handled up to n of the events, one at a time
RECURSIVE Handled(_, _, _)
Handled(n, rts, events) ==
    IF n = 0 THEN {EmptyStores}
    ELSE LET before == Handled(n - 1, rts, events)
         IN before \cup {apply(st, rts, ev) : st \in before, ev \in events}

IntegrationEvents ==
    {IntegrationCreateEvent(i) : i \in GuildIntegration}
        \cup {IntegrationUpdateEvent(i) : i \in GuildIntegration}
        \cup {IntegrationDeleteEvent(g, x) : g \in GuildIds, x \in IntegrationIds}

\* every thread is handed one of the events, or none
Concurrently(events) == [Threads -> {Start(ev) : ev \in events \cup {NoEvent}}]

\* one thread is handed one of the events, the others none
Alone(events) ==
    {[t \in Threads |-> IF t = 1 THEN Start(ev) ELSE Start(NoEvent)] : ev \in events}

\* a cache on the default configuration that has handled up to n events,
\* and threads entering the events of one of the starts against it
InitThreads(n, handled, starts) ==
    /\ resource_types = ConfigNew.resource_types
    /\ base \in Handled(n, resource_types, handled)
    /\ emojis = base.emojis
    /\ guild_emojis = base.guild_emojis
    /\ users = base.users
    /\ integrations = base.integrations
    /\ guild_integrations = base.guild_integrations
    /\ threads \in starts

InitIntegrationThreads ==
    InitThreads(MaxSeedEvents, IntegrationEvents, Concurrently(IntegrationEvents))

ThreadEmojiLists == UNION {[1..n -> Emoji] : n \in 0..MaxThreadLen}

CacheEmojiCalls == {CacheEmojiCall(g, e) : g \in GuildIds, e \in Emoji}

EmojiEvents ==
    CacheEmojiCalls
        \cup {GuildEmojisUpdateEvent(g, l) : g \in GuildIds, l \in ThreadEmojiLists}

InitEmojiThreads == InitThreads(MaxSeedEvents, EmojiEvents, Concurrently(EmojiEvents))

\* one map call of one thread running an integration event
StepIntegration(t) ==
    \/ Update(t)
    \/ GuildIntegrationsEntry(t)
    \/ UpsertGuildItem(t)
    \/ IntegrationsRemove(t)
    \/ GuildIntegrationsRemove(t)

NextIntegrationThreads == \E t \in Threads : StepIntegration(t)

\* one map call of one thread inside cache_emoji
StepCacheEmoji(t) ==
    \/ EmojisGet(t)
    \/ CacheUser(t)
    \/ EmojisInsert(t)
    \/ GuildEmojisEntry(t)

\* one map call of one thread running an emoji event
StepEmoji(t) ==
    \/ Update(t)
    \/ GuildEmojisGetMut(t)
    \/ GuildEmojisRemove(t)
    \/ EmojisRemove(t)
    \/ StepCacheEmoji(t)

NextEmojiThreads == \E t \in Threads : StepEmoji(t)

\* threads running emoji events, interleaved map call by map call
SpecEmojiThreads == InitEmojiThreads /\ [][NextEmojiThreads]_vars

\* threads running integration events, interleaved map call by map call
SpecIntegrationThreads == InitIntegrationThreads /\ [][NextIntegrationThreads]_vars

\* one thread running one cache_emoji call or one full-set replacement,
\* lists up to MaxLen, against a cache that has handled up to
\* MaxReplacementSeedEvents such events
GuildEmojisUpdates ==
    {GuildEmojisUpdateEvent(g, l) : g \in GuildIds, l \in EmojiLists}

InitEmojiAlone ==
    InitThreads(MaxReplacementSeedEvents, CacheEmojiCalls \cup GuildEmojisUpdates,
                Alone(CacheEmojiCalls \cup GuildEmojisUpdates))

SpecEmojiAlone == InitEmojiAlone /\ [][NextEmojiThreads]_vars

\* threads each running one singleton event (a cache_emoji call or an
\* integration event) against a cache that has handled such events
SingletonEvents == CacheEmojiCalls \cup IntegrationEvents

InitSingletons ==
    InitThreads(MaxSeedEvents, SingletonEvents, Concurrently(SingletonEvents))

NextSingletons == \E t \in Threads : StepCacheEmoji(t) \/ StepIntegration(t)

SpecSingletons == InitSingletons /\ [][NextSingletons]_vars

\* the events of the threads applied one after the other in the given order
RECURSIVE ApplyInOrder(_, _, _, _)
ApplyInOrder(st, rts, order, n) ==
    IF n > Len(order) THEN st
    ELSE ApplyInOrder(apply(st, rts, threads[order[n]].ev), rts, order, n + 1)

\* Threads running emoji events or threads running integration events
\* (one category per run, as in Next), every thread scheduled again and
\* again while it has a map call it can make: a call waits only for a
\* guard, and the OS scheduler runs every thread that is not waiting.
InitAllThreads == InitEmojiThreads \/ InitIntegrationThreads

Step(t) == StepEmoji(t) \/ StepIntegration(t)

NextThreads == \E t \in Threads : Step(t)

FairSpecThreads ==
    /\ InitAllThreads
    /\ [][NextThreads]_vars
    /\ \A t \in Threads : WF_vars(Step(t))

AllReturned == \A t \in Threads : threads[t].pc = "done"

\* ------------------------------------------------------- properties
\* Relationship Index membership: G has an index set and X is in it
Indexed(index, g, x) == g \in DOMAIN index /\ x \in index[g]

\* the ids carried by an emoji list
ListIds(l) == {l[i].id : i \in DOMAIN l}

\* C1: (I1 for emojis) for every guild G and every id X in guild_emojis(G),
\* the emoji store contains X and the stored entry's guild_id equals G.
\* Stated as claimed; the same emoji id cached under two guilds breaks it.
I1Emoji ==
    \A g \in DOMAIN guild_emojis : \A x \in guild_emojis[g] :
        x \in DOMAIN emojis /\ emojis[x].guild_id = g

\* C2: (I2 for integrations) every integration stored under key (G, X) has
\* X as a member of guild_integrations(G).  Stated as claimed;
\* IntegrationCreate writes the store and not the index.
I2Integration ==
    \A k \in DOMAIN integrations : Indexed(guild_integrations, k[1], k[2])

\* C3: (I2 for emojis) every emoji in the emoji store with guild_id G has
\* its id as a member of guild_emojis(G).
I2Emoji ==
    \A x \in DOMAIN emojis : Indexed(guild_emojis, emojis[x].guild_id, x)

\* C3 witness: an emoji id that has arrived under every guild: it is stored
\* under one of them and indexed by all of them.
I2EmojiWitness ==
    \E x \in DOMAIN emojis :
        /\ \A g \in GuildIds : Indexed(guild_emojis, g, x)
        /\ \E y \in DOMAIN emojis : emojis[y].guild_id # emojis[x].guild_id

\* C4: after GuildEmojisUpdate for guild G with list S (EMOJI enabled),
\* guild_emojis(G) contains every id of S and no id that is not in S.
\* Stated as claimed; an emoji of S that is cached, equal, under another
\* guild is not added to guild_emojis(G).
FullSetResult ==
    wants(resource_types, EMOJI) =>
        \A g \in GuildIds, l \in EmojiLists :
            LET st == guild_emojis_update(EmojiState, resource_types, g, l)
            IN \A x \in EmojiIds :
                   Indexed(st.guild_emojis, g, x) <=> x \in ListIds(l)

\* C5: after cache_emoji(G, e), emoji(e.id) returns a value and
\* guild_emojis(G) is present and contains e.id.  Stated as claimed; the
\* early return on an equal cached emoji skips the index insert.
SingletonInsert ==
    \A g \in GuildIds, e \in Emoji :
        LET st == cache_emoji(EmojiState, g, e)
        IN /\ emoji(st, e.id) # None
           /\ guild_emojis_of(st, g) # None
           /\ Indexed(st.guild_emojis, g, e.id)

\* C6: after GuildEmojisUpdate for guild G with list S (EMOJI enabled, so that
\* the replacement runs), every id that was in
\* guild_emojis(G) before and is not in S is absent from guild_emojis(G) and
\* from the emoji store, and every emoji of S is queryable through emoji(id).
StaleRemoval ==
    wants(resource_types, EMOJI) =>
        \A g \in GuildIds, l \in EmojiLists :
            LET st == guild_emojis_update(EmojiState, resource_types, g, l)
                before == IF g \in DOMAIN guild_emojis THEN guild_emojis[g] ELSE {}
            IN /\ \A x \in before \ ListIds(l) :
                      /\ ~Indexed(st.guild_emojis, g, x)
                      /\ emoji(st, x) = None
               /\ \A x \in ListIds(l) : emoji(st, x) # None

\* C6 witness: a replacement that keeps one cached emoji of the guild and
\* drops another one, which is in the store before it and not after it.
StaleRemovalWitness ==
    /\ wants(resource_types, EMOJI)
    /\ \E g \in DOMAIN guild_emojis, l \in EmojiLists :
           LET st == guild_emojis_update(EmojiState, resource_types, g, l)
           IN /\ ListIds(l) # {}
              /\ ListIds(l) \subseteq guild_emojis[g]
              /\ \E x \in guild_emojis[g] \ ListIds(l) :
                     x \in DOMAIN emojis /\ x \notin DOMAIN st.emojis
              /\ st.guild_emojis[g] = ListIds(l)

\* C7: after GuildEmojisUpdate for G with an empty list (EMOJI enabled),
\* also for a guild that never had an emoji cached, guild_emojis(G) is
\* present and empty and the store holds no emoji whose guild_id is G.
\* Stated as claimed; a guild without an index set gets none.
EmptyingReplacement ==
    wants(resource_types, EMOJI) =>
        \A g \in GuildIds :
            LET st == guild_emojis_update(EmojiState, resource_types, g, <<>>)
            IN /\ guild_emojis_of(st, g) = <<{}>>
               /\ \A x \in DOMAIN st.emojis : st.emojis[x].guild_id # g

\* C8: with the EMOJI bit cleared a GuildEmojisUpdate leaves the emoji store,
\* guild_emojis and the user store unchanged; with the INTEGRATION bit
\* cleared IntegrationCreate, IntegrationUpdate and IntegrationDelete leave
\* the integrations store and guild_integrations unchanged.
MaskGating ==
    /\ ~wants(resource_types, EMOJI) =>
           \A g \in GuildIds, l \in EmojiLists :
               guild_emojis_update(EmojiState, resource_types, g, l) = EmojiState
    /\ ~wants(resource_types, INTEGRATION) =>
           /\ \A i \in GuildIntegration :
                  /\ integration_create(IntegrationState, resource_types, i)
                         = IntegrationState
                  /\ integration_update(IntegrationState, resource_types, i)
                         = IntegrationState
           /\ \A g \in GuildIds, x \in IntegrationIds :
                  integration_delete(IntegrationState, resource_types, g, x)
                      = IntegrationState

\* C8 witness: a cache built with both bits cleared that holds emojis with
\* their users (cached by cache_emoji), on which the gated events arrive.
MaskGatingWitness ==
    /\ ~wants(resource_types, EMOJI)
    /\ ~wants(resource_types, INTEGRATION)
    /\ DOMAIN emojis = EmojiIds
    /\ users # EmptyMap
    /\ \E g \in DOMAIN guild_emojis : guild_emojis[g] # {}

\* C9: applying the identical create/update event (cache_emoji,
\* GuildEmojisUpdate, IntegrationCreate, IntegrationUpdate) twice in a row
\* yields exactly the same stores and index sets as applying it once.
\* Stated as claimed; a list that repeats an emoji id can differ in the
\* user store.
Idempotence ==
    /\ \A g \in GuildIds, e \in Emoji :
           cache_emoji(cache_emoji(EmojiState, g, e), g, e)
               = cache_emoji(EmojiState, g, e)
    /\ \A g \in GuildIds, l \in EmojiLists :
           LET once == guild_emojis_update(EmojiState, resource_types, g, l)
           IN guild_emojis_update(once, resource_types, g, l) = once
    /\ \A i \in GuildIntegration :
           LET created == integration_create(IntegrationState, resource_types, i)
               updated == integration_update(IntegrationState, resource_types, i)
           IN /\ integration_create(created, resource_types, i) = created
              /\ integration_update(updated, resource_types, i) = updated

\* C10: after IntegrationDelete for (G, X), the integrations store has no
\* entry for (G, X) and guild_integrations(G) does not contain X.
DeletePostcondition ==
    \A g \in GuildIds, x \in IntegrationIds :
        LET st == integration_delete(IntegrationState, resource_types, g, x)
        IN /\ <<g, x>> \notin DOMAIN st.integrations
           /\ ~Indexed(st.guild_integrations, g, x)

\* C10 witness: a guild whose index set a delete has emptied, with no
\* integration left in the store, next to a guild that still has one in
\* both.
DeletePostconditionWitness ==
    \E g \in DOMAIN guild_integrations :
        /\ guild_integrations[g] = {}
        /\ \A x \in IntegrationIds : <<g, x>> \notin DOMAIN integrations
        /\ \E k \in DOMAIN integrations : Indexed(guild_integrations, k[1], k[2])

\* C11: an IntegrationDelete for a (guild, id) that is not in the
\* integrations store leaves the integrations store and every
\* guild_integrations set unchanged, the entries of the other ids of the
\* same guild included.
DeleteAbsentNoop ==
    \A g \in GuildIds, x \in IntegrationIds :
        <<g, x>> \notin DOMAIN integrations =>
            integration_delete(IntegrationState, resource_types, g, x)
                = IntegrationState

\* C11 witness: INTEGRATION enabled, a guild that has one integration stored
\* and indexed and no entry for another id, which a delete then names.
DeleteAbsentNoopWitness ==
    /\ wants(resource_types, INTEGRATION)
    /\ \E g \in GuildIds, x, y \in IntegrationIds :
           /\ <<g, x>> \notin DOMAIN integrations
           /\ <<g, y>> \in DOMAIN integrations
           /\ Indexed(guild_integrations, g, y)

\* C14: the 13 named ResourceType constants are the single bits 1 << i for
\* i = 0..12, pairwise distinct; Config::new() sets resource_types to the
\* union of all 13, so that every category is wanted, and
\* message_cache_size to 100.
DefaultConfig ==
    /\ Len(ResourceTypeFlags) = 13
    /\ \A i \in DOMAIN ResourceTypeFlags : ResourceTypeFlags[i] = 2 ^ (i - 1)
    /\ \A i, j \in DOMAIN ResourceTypeFlags :
           i # j => ResourceTypeFlags[i] # ResourceTypeFlags[j]
    /\ bits(ConfigNew.resource_types) = 2 ^ 13 - 1
    /\ ConfigNew.message_cache_size = 100
    /\ resource_types = ConfigNew.resource_types =>
           \A i \in DOMAIN ResourceTypeFlags :
               wants(resource_types, ResourceTypeFlags[i])

\* C14 witness: the cache built on the unchanged Config::new().
DefaultConfigWitness ==
    /\ resource_types = ConfigNew.resource_types
    /\ bits(resource_types) = 8191

\* the store entries keyed (h, _) / the index set of h are the same in two maps
SameEntriesOf(h, before, after) ==
    \A x \in IntegrationIds :
        /\ (<<h, x>> \in DOMAIN before) <=> (<<h, x>> \in DOMAIN after)
        /\ <<h, x>> \in DOMAIN before => before[<<h, x>>] = after[<<h, x>>]

SameIndexOf(h, before, after) ==
    /\ (h \in DOMAIN before) <=> (h \in DOMAIN after)
    /\ h \in DOMAIN before => before[h] = after[h]

\* C20: a cache_emoji or GuildEmojisUpdate for guild G never changes
\* guild_emojis(H) for a guild H different from G, and an integration event
\* for G never changes guild_integrations(H) or an integrations entry keyed
\* (H, _) for H different from G.
OwnerIsolation ==
    \A g \in GuildIds : \A h \in GuildIds \ {g} :
        /\ \A e \in Emoji :
               SameIndexOf(h, guild_emojis,
                           cache_emoji(EmojiState, g, e).guild_emojis)
        /\ \A l \in EmojiLists :
               SameIndexOf(h, guild_emojis,
                           guild_emojis_update(EmojiState, resource_types, g, l).guild_emojis)
        /\ \A i \in {j \in GuildIntegration : j.guild_id = <<g>>} :
               LET created == integration_create(IntegrationState, resource_types, i)
                   updated == integration_update(IntegrationState, resource_types, i)
               IN /\ SameIndexOf(h, guild_integrations, created.guild_integrations)
                  /\ SameEntriesOf(h, integrations, created.integrations)
                  /\ SameIndexOf(h, guild_integrations, updated.guild_integrations)
                  /\ SameEntriesOf(h, integrations, updated.integrations)
        /\ \A x \in IntegrationIds :
               LET deleted == integration_delete(IntegrationState, resource_types, g, x)
               IN /\ SameIndexOf(h, guild_integrations, deleted.guild_integrations)
                  /\ SameEntriesOf(h, integrations, deleted.integrations)

\* C20 witness: EMOJI enabled and two guilds that index the same emoji id
\* next to an id of their own, so that a replacement for one of them has a
\* stale id that the other guild indexes too.
OwnerIsolationWitness ==
    /\ wants(resource_types, EMOJI)
    /\ \E g \in DOMAIN guild_emojis, h \in DOMAIN guild_emojis :
           /\ g # h
           /\ guild_emojis[g] \cap guild_emojis[h] # {}

\* C15: in every insert path the Entity Store write for an id happens
\* before the Relationship Index add of that id under its owner: a step
\* that adds X to guild_emojis(G) finds X in the emoji store, and a step
\* that adds X to guild_integrations(G) finds (G, X) in the integrations
\* store.
InsertOrdering ==
    [][/\ \A g \in GuildIds, x \in EmojiIds :
              (~Indexed(guild_emojis, g, x) /\ Indexed(guild_emojis', g, x))
                  => x \in DOMAIN emojis
       /\ \A g \in GuildIds, x \in IntegrationIds :
              (~Indexed(guild_integrations, g, x) /\ Indexed(guild_integrations', g, x))
                  => <<g, x>> \in DOMAIN integrations]_vars

\* C18: when an IntegrationUpdate and an IntegrationDelete for the same
\* (G, X) have run concurrently against a cache that was consistent for
\* (G, X) and both have completed, (G, X) is in the integrations store if
\* and only if X is in guild_integrations(G).
UpdateDeleteConsistent ==
    \A t, u \in Threads :
        (/\ AllReturned
         /\ threads[t].ev.op = "IntegrationUpdate"
         /\ threads[u].ev.op = "IntegrationDelete"
         /\ threads[t].ev.guild_id = threads[u].ev.guild_id
         /\ threads[t].ev.id = threads[u].ev.id
         /\ (<<threads[u].ev.guild_id[1], threads[u].ev.id[1]>> \in DOMAIN base.integrations
                <=> Indexed(base.guild_integrations,
                            threads[u].ev.guild_id[1], threads[u].ev.id[1])))
        => (<<threads[u].ev.guild_id[1], threads[u].ev.id[1]>> \in DOMAIN integrations
               <=> Indexed(guild_integrations,
                           threads[u].ev.guild_id[1], threads[u].ev.id[1]))

\* every id in guild_emojis(g) of st is in st's emoji store with guild_id g
NoDanglingEmoji(st, g) ==
    g \in DOMAIN st.guild_emojis =>
        \A x \in st.guild_emojis[g] :
            x \in DOMAIN st.emojis /\ st.emojis[x].guild_id = g

\* C19: when two GuildEmojisUpdate events for the same guild G have run
\* concurrently against a cache without dangling index entries and both
\* have completed, every id in guild_emojis(G) is present in the emoji
\* store with guild_id G.
ConcurrentReplacements ==
    \A t \in Threads : \A u \in Threads \ {t} :
        (/\ AllReturned
         /\ threads[t].ev.op = "GuildEmojisUpdate"
         /\ threads[u].ev.op = "GuildEmojisUpdate"
         /\ threads[t].ev.guild_id = threads[u].ev.guild_id
         /\ \A g \in GuildIds : NoDanglingEmoji(base, g))
        => NoDanglingEmoji(Stores, threads[t].ev.guild_id[1])

\* the stale ids of the replacement that frame f runs against the maps st
StaleOf(st, f) == removal_filter(st, f.ev.guild_id[1], f.ev.emojis)

\* C16: during a full-set emoji replacement for guild G that runs alone
\* from a state satisfying I1, every stale id is out of guild_emojis(G)
\* before the first store removal; no incoming emoji is written and no id
\* is indexed while removals are pending; once the writes start every stale
\* id is out of the index and the store; and at no step does guild_emojis(G)
\* contain an id that is absent from the emoji store.
StaleRemovalOrdering ==
    \A t \in Threads :
        LET f == threads[t]
            g == f.ev.guild_id[1]
        IN (/\ f.ev.op = "GuildEmojisUpdate"
            /\ \A u \in Threads \ {t} : threads[u].ev.op = "None"
            /\ \A h \in GuildIds : NoDanglingEmoji(base, h))
           => /\ f.pc = "emojis.remove" =>
                     \A x \in StaleOf(base, f) : ~Indexed(guild_emojis, g, x)
              /\ f.pc \in {"guild_emojis.remove", "emojis.remove"} =>
                     /\ \A x \in DOMAIN emojis :
                            x \in DOMAIN base.emojis /\ emojis[x] = base.emojis[x]
                     /\ guild_emojis[g] \subseteq base.guild_emojis[g]
                     /\ users = base.users
              /\ f.pc \in {"emojis.get", "cache_user", "emojis.insert",
                            "guild_emojis.entry", "done"} =>
                     \A x \in StaleOf(base, f) :
                         ~Indexed(guild_emojis, g, x) /\ x \notin DOMAIN emojis
              /\ \A x \in EmojiIds : Indexed(guild_emojis, g, x) => x \in DOMAIN emojis

\* C16 witness: a replacement running alone from an I1 state with two stale
\* ids, the first already removed from the store and the second not yet.
StaleRemovalOrderingWitness ==
    \E t \in Threads :
        /\ threads[t].ev.op = "GuildEmojisUpdate"
        /\ \A u \in Threads \ {t} : threads[u].ev.op = "None"
        /\ \A h \in GuildIds : NoDanglingEmoji(base, h)
        /\ threads[t].pc = "emojis.remove"
        /\ Len(threads[t].removal_filter) = 2
        /\ threads[t].k = 2
        /\ threads[t].removal_filter[2] \in DOMAIN emojis

\* thread t runs an emoji event and no other thread runs anything
RunsAlone(t) ==
    /\ threads[t].ev.op \in {"cache_emoji", "GuildEmojisUpdate"}
    /\ \A u \in Threads \ {t} : threads[u].ev.op = "None"

\* C17: when cache_emoji writes an emoji that carries an embedded user U,
\* U is in the user store before the emoji store is written, and the
\* stored emoji holds id, name and user_id = U.id only; an emoji without a
\* user is stored with no user_id and its cache_emoji makes no user-store
\* mutation.
NestedUser ==
    [][\A t \in Threads :
          RunsAlone(t) =>
              LET f == threads[t]
                  e == f.ev.emojis[f.i]
              IN /\ f.pc = "emojis.insert" =>
                        /\ e.user # None =>
                               /\ e.user[1].id \in DOMAIN users
                               /\ users[e.user[1].id] = e.user[1]
                               /\ emojis'[e.id].data.user_id = <<e.user[1].id>>
                        /\ e.user = None => emojis'[e.id].data.user_id = None
                        /\ DOMAIN emojis'[e.id].data = {"id", "name", "user_id"}
                 /\ (/\ f.pc \in {"emojis.get", "emojis.insert", "guild_emojis.entry"}
                     /\ e.user = None) => users' = users]_vars

\* C17 witness: a cache_emoji running alone has upserted a user that the
\* user store did not hold in that form, and has written the emoji with
\* that user's id.
NestedUserWitness ==
    \E t \in Threads :
        /\ RunsAlone(t)
        /\ threads[t].pc = "guild_emojis.entry"
        /\ threads[t].ev.emojis[threads[t].i].user # None
        /\ users # base.users
        /\ emojis[threads[t].ev.emojis[threads[t].i].id].data.user_id
               = <<threads[t].ev.emojis[threads[t].i].user[1].id>>

\* the entity id an event is addressed to
TargetIds(ev) ==
    CASE ev.op = "cache_emoji" -> {<<"emoji", ev.emojis[1].id>>}
      [] ev.op \in {"IntegrationCreate", "IntegrationUpdate", "IntegrationDelete"} ->
             {<<"integration", ev.id[1]>>}
      [] OTHER -> {}

\* the entity ids an event writes: its target and the user embedded in it
EntityIds(ev) ==
    TargetIds(ev) \cup
        IF ev.op = "cache_emoji" /\ ev.emojis[1].user # None
        THEN {<<"user", ev.emojis[1].user[1].id>>}
        ELSE {}

\* the threads have run singleton events and all have returned, and the
\* final maps are those of every sequential order of the events
SameAsEverySequentialOrder ==
    \A order \in Orderings(Threads) :
        Stores = ApplyInOrder(base, resource_types, order, 1)

\* C12 as claimed: singleton events that target pairwise disjoint emoji /
\* integration ids end, in every interleaving of their map steps, in the
\* final stores and index sets of every sequential order of the events.
CommutativityOnTargets ==
    (/\ AllReturned
     /\ \A t \in Threads : \A u \in Threads \ {t} :
            TargetIds(threads[t].ev) \cap TargetIds(threads[u].ev) = {})
    => SameAsEverySequentialOrder

\* C12 amended: singleton events whose entity ids, the ids of the users
\* embedded in the emojis included, are pairwise disjoint end, in every
\* interleaving of their map steps, in the final stores and index sets of
\* every sequential order of the events.
Commutativity ==
    (/\ AllReturned
     /\ \A t \in Threads : \A u \in Threads \ {t} :
            EntityIds(threads[t].ev) \cap EntityIds(threads[u].ev) = {})
    => SameAsEverySequentialOrder

\* C12 witness: two threads have both returned from cache_emoji calls for
\* different emoji ids under the same guild, one of them carrying a user.
CommutativityWitness ==
    /\ AllReturned
    /\ \E t \in Threads : \E u \in Threads \ {t} :
           /\ threads[t].ev.op = "cache_emoji"
           /\ threads[u].ev.op = "cache_emoji"
           /\ threads[t].ev.guild_id = threads[u].ev.guild_id
           /\ threads[t].ev.emojis[1].user # None
           /\ EntityIds(threads[t].ev) \cap EntityIds(threads[u].ev) = {}
           /\ {threads[t].ev.emojis[1].id, threads[u].ev.emojis[1].id}
                  \subseteq guild_emojis[threads[t].ev.guild_id[1]]
           /\ Stores # base

\* C13: with threads concurrently running GuildEmojisUpdate / cache_emoji
\* or integration events under fair scheduling, every started operation
\* eventually completes; in particular no reachable state has threads
\* waiting for guards that are never released.
Termination == <>AllReturned

\* C13 witness: a thread waits at guild_emojis.get_mut or
\* guild_emojis.entry for the guard that another thread's cache_emojis
\* holds on the same guild.
TerminationWitness ==
    \E t \in Threads : \E u \in Threads \ {t} :
        /\ threads[t].pc \in {"guild_emojis.get_mut", "guild_emojis.entry"}
        /\ holds_guard(threads[u], threads[t].ev.guild_id[1])
        /\ ~ENABLED Step(t)

====
